---- MODULE Spec2Model ----
(***************************************************************************)
(* A model of ng-log (src/src/lib.rs): the ngLog event-log parser and      *)
(* serializer.  A Rust String is modelled as the sequence of its UTF-8     *)
(* bytes (integers 0..255); Option<T> as a sequence of length 0 or 1;      *)
(* IoResult<T> as a record [ok, val, err] with val a sequence of length    *)
(* 0 or 1 and err the error message ("" on success).  Every IoError the    *)
(* library builds has ErrorKind::InvalidData, so an error is identified    *)
(* by its message.                                                         *)
(***************************************************************************)
EXTENDS Integers, Sequences, FiniteSets, TLC

\* ------------------------------------------------------------------------
\* Bounds of the model
\* ------------------------------------------------------------------------
\* longest byte buffer / string handed to a reader or to from_string
MaxLen == 4
\* most parameters handed to NgEvent::new
MaxParams == 2
\* most events pushed on a directly built NgLog
MaxEvents == 2

\* ------------------------------------------------------------------------
\* Program constants
\* ------------------------------------------------------------------------
\* '\t', the separator of s.split('\t') and of "\t" in to_string
TAB == 9
\* '\n', the terminator of s.lines() and of "\n" in to_string
LF == 10
\* '\r', dropped by s.lines() in front of a '\n'
CR == 13

\* ------------------------------------------------------------------------
\* Bytes
\* ------------------------------------------------------------------------
Bit(a, i) == (a \div (2 ^ i)) % 2

\* v[0] ^ v[1] on u8
Xor8(a, b) ==
    LET x(i) == ((Bit(a, i) + Bit(b, i)) % 2) * (2 ^ i)
    IN  x(0) + x(1) + x(2) + x(3) + x(4) + x(5) + x(6) + x(7)

\* Option<T>
None == << >>
Some(v) == << v >>

\* IoResult<T>
Ok(v) == [ok |-> TRUE, val |-> << v >>, err |-> ""]
Err(msg) == [ok |-> FALSE, val |-> << >>, err |-> msg]

\* ------------------------------------------------------------------------
\* String::from_utf8 (core::str::from_utf8 validation)
\* ------------------------------------------------------------------------
IsCont(b) == b >= 128 /\ b <= 191

utf8_char_width(b) ==
    IF b < 128 THEN 1
    ELSE IF b >= 194 /\ b <= 223 THEN 2
    ELSE IF b >= 224 /\ b <= 239 THEN 3
    ELSE IF b >= 240 /\ b <= 244 THEN 4
    ELSE 0

\* the second byte of a three byte sequence
Second3Ok(first, b) ==
    \/ first = 224 /\ b >= 160 /\ b <= 191
    \/ first >= 225 /\ first <= 236 /\ IsCont(b)
    \/ first = 237 /\ b >= 128 /\ b <= 159
    \/ first >= 238 /\ first <= 239 /\ IsCont(b)

\* the second byte of a four byte sequence
Second4Ok(first, b) ==
    \/ first = 240 /\ b >= 144 /\ b <= 191
    \/ first >= 241 /\ first <= 243 /\ IsCont(b)
    \/ first = 244 /\ b >= 128 /\ b <= 143

\* Utf8Error: error_len = 0 stands for None (unexpected end of input)
Utf8Err(valid_up_to, error_len) ==
    [valid |-> FALSE, valid_up_to |-> valid_up_to, error_len |-> error_len]
Utf8Ok == [valid |-> TRUE, valid_up_to |-> 0, error_len |-> 0]

\* run_utf8_validation from byte index (0-based), v[index] is v[index + 1] here
RECURSIVE Validate(_, _)
Validate(v, index) ==
    IF index >= Len(v) THEN Utf8Ok
    ELSE
      LET first == v[index + 1]
          w == utf8_char_width(first)
          has(k) == index + k < Len(v)
          at(k) == v[index + k + 1]
      IN  IF first < 128 THEN Validate(v, index + 1)
          ELSE IF w = 2 THEN
            IF ~has(1) THEN Utf8Err(index, 0)
            ELSE IF ~IsCont(at(1)) THEN Utf8Err(index, 1)
            ELSE Validate(v, index + 2)
          ELSE IF w = 3 THEN
            IF ~has(1) THEN Utf8Err(index, 0)
            ELSE IF ~Second3Ok(first, at(1)) THEN Utf8Err(index, 1)
            ELSE IF ~has(2) THEN Utf8Err(index, 0)
            ELSE IF ~IsCont(at(2)) THEN Utf8Err(index, 2)
            ELSE Validate(v, index + 3)
          ELSE IF w = 4 THEN
            IF ~has(1) THEN Utf8Err(index, 0)
            ELSE IF ~Second4Ok(first, at(1)) THEN Utf8Err(index, 1)
            ELSE IF ~has(2) THEN Utf8Err(index, 0)
            ELSE IF ~IsCont(at(2)) THEN Utf8Err(index, 2)
            ELSE IF ~has(3) THEN Utf8Err(index, 0)
            ELSE IF ~IsCont(at(3)) THEN Utf8Err(index, 3)
            ELSE Validate(v, index + 4)
          ELSE Utf8Err(index, 1)

\* format!("{}", e) of a FromUtf8Error
Utf8Message(e) ==
    IF e.error_len = 0
    THEN "incomplete utf-8 byte sequence from index " \o ToString(e.valid_up_to)
    ELSE "invalid utf-8 sequence of " \o ToString(e.error_len)
         \o " bytes from index " \o ToString(e.valid_up_to)

\* String::from_utf8(data).map_err(|e| IoError::new(InvalidData, format!("{}", e)))
from_utf8(data) ==
    LET r == Validate(data, 0)
    IN  IF r.valid THEN Ok(data) ELSE Err(Utf8Message(r))

\* ------------------------------------------------------------------------
\* str::split and str::lines
\* ------------------------------------------------------------------------
\* 1-based index of the first byte c of s, 0 when there is none
RECURSIVE IndexFrom(_, _, _)
IndexFrom(s, c, i) ==
    IF i > Len(s) THEN 0
    ELSE IF s[i] = c THEN i
    ELSE IndexFrom(s, c, i + 1)

\* s.split('\t'): the fields between the separators, empty fields kept,
\* always at least one field
RECURSIVE split(_, _)
split(s, sep) ==
    LET i == IndexFrom(s, sep, 1)
    IN  IF i = 0 THEN << s >>
        ELSE << SubSeq(s, 1, i - 1) >> \o split(SubSeq(s, i + 1, Len(s)), sep)

\* a line that ended in '\n' loses one '\r' in front of it
StripCR(l) ==
    IF Len(l) > 0 /\ l[Len(l)] = CR THEN SubSeq(l, 1, Len(l) - 1) ELSE l

\* s.lines(): split after every '\n'; the terminator "\n" or "\r\n" is
\* dropped; a last line without '\n' is kept as it is; no empty last line
\* (str::lines of the current standard library: split_inclusive('\n'), then
\* strip_suffix('\n') and strip_suffix('\r'); a bare '\r' at the end of the
\* text is preserved)
RECURSIVE lines(_)
lines(s) ==
    IF s = << >> THEN << >>
    ELSE LET i == IndexFrom(s, LF, 1)
         IN  IF i = 0 THEN << s >>
             ELSE << StripCR(SubSeq(s, 1, i - 1)) >>
                  \o lines(SubSeq(s, i + 1, Len(s)))

\* ------------------------------------------------------------------------
\* NgEvent
\* ------------------------------------------------------------------------
NgEvent_new(timestamp, class, id, params) ==
    [timestamp    |-> timestamp,
     event_class  |-> class,
     event_id     |-> id,
     event_params |-> params]

\* Vec::remove(0): the removed element and the rest
Removed(columns) == Head(columns)
Rest(columns) == Tail(columns)

\* mutant: the field count test off by one (columns.len() < 3)
NgEvent_from_string_MinThree(s) ==
    LET columns == split(s, TAB)
    IN  IF Len(columns) < 3 THEN Err("Bad event string")
        ELSE
          Ok(NgEvent_new(Removed(columns),
                         Some(Removed(Rest(columns))),
                         Removed(Rest(Rest(columns))),
                         Rest(Rest(Rest(columns)))))

\* mutant: the class and the id taken in the wrong order
NgEvent_from_string_Swapped(s) ==
    LET columns == split(s, TAB)
    IN  IF Len(columns) < 2 THEN Err("Bad event string")
        ELSE IF Len(columns) = 2 THEN
          Ok(NgEvent_new(Removed(columns),
                         None,
                         Removed(Rest(columns)),
                         << >>))
        ELSE
          Ok(NgEvent_new(Removed(columns),
                         Some(Removed(Rest(Rest(columns)))),
                         Removed(Rest(columns)),
                         Rest(Rest(Rest(columns)))))

\* mutant: the parameters are dropped (Vec::with_capacity(0) in both branches)
NgEvent_from_string_NoParams(s) ==
    LET columns == split(s, TAB)
    IN  IF Len(columns) < 2 THEN Err("Bad event string")
        ELSE IF Len(columns) = 2 THEN
          Ok(NgEvent_new(Removed(columns),
                         None,
                         Removed(Rest(columns)),
                         << >>))
        ELSE
          Ok(NgEvent_new(Removed(columns),
                         Some(Removed(Rest(columns))),
                         Removed(Rest(Rest(columns))),
                         << >>))

NgEvent_from_string(s) ==
    LET columns == split(s, TAB)
    IN  IF Len(columns) < 2 THEN Err("Bad event string")
        ELSE IF Len(columns) = 2 THEN
          Ok(NgEvent_new(Removed(columns),
                         None,
                         Removed(Rest(columns)),
                         << >>))
        ELSE
          Ok(NgEvent_new(Removed(columns),
                         Some(Removed(Rest(columns))),
                         Removed(Rest(Rest(columns))),
                         Rest(Rest(Rest(columns)))))

\* the loop over self.event_params: s = s + "\t" + v
RECURSIVE AppendParams(_, _)
AppendParams(s, params) ==
    IF params = << >> THEN s
    ELSE AppendParams(s \o << TAB >> \o Head(params), Tail(params))

\* mutant: the separator of the class is written although the class is absent
NgEvent_to_string_EmptyClass(e) ==
    LET s0 == e.timestamp
        s1 == IF e.event_class # None
              THEN s0 \o << TAB >> \o e.event_class[1]
              ELSE s0 \o << TAB >>
        s2 == s1 \o << TAB >> \o e.event_id
    IN  AppendParams(s2, e.event_params)

NgEvent_to_string(e) ==
    LET s0 == e.timestamp
        s1 == IF e.event_class # None
              THEN s0 \o << TAB >> \o e.event_class[1]
              ELSE s0
        s2 == s1 \o << TAB >> \o e.event_id
    IN  AppendParams(s2, e.event_params)

\* ------------------------------------------------------------------------
\* NgLog
\* ------------------------------------------------------------------------
NgLog_new(capacity) == [events |-> << >>]

\* mutant: the event is inserted in front (log.events.insert(0, event))
Push_Front(log, event) == [events |-> << event >> \o log.events]

\* log.events.push(event)
Push(log, event) == [events |-> Append(log.events, event)]

\* mutant: a malformed line is skipped instead of ending the parse
RECURSIVE ParseLines_Skip(_, _)
ParseLines_Skip(log, ls) ==
    IF ls = << >> THEN Ok(log)
    ELSE LET event == NgEvent_from_string(Head(ls))
         IN  IF ~event.ok THEN ParseLines_Skip(log, Tail(ls))
             ELSE ParseLines_Skip(Push(log, event.val[1]), Tail(ls))

\* the loop of NgLog::from_string over the lines still to parse
RECURSIVE ParseLines(_, _)
ParseLines(log, ls) ==
    IF ls = << >> THEN Ok(log)
    ELSE LET event == NgEvent_from_string(Head(ls))
         IN  IF ~event.ok THEN Err(event.err)
             ELSE ParseLines(Push(log, event.val[1]), Tail(ls))

NgLog_from_string(s) == ParseLines(NgLog_new(Len(s)), lines(s))

\* mutant: the newline is written between the events only, not after the last
RECURSIVE AppendEvents_Join(_, _)
AppendEvents_Join(s, events) ==
    IF events = << >> THEN s
    ELSE AppendEvents_Join(
             s \o NgEvent_to_string(Head(events))
               \o (IF Tail(events) = << >> THEN << >> ELSE << LF >>),
             Tail(events))

\* the loop of NgLog::to_string: s = s + v.to_string() + "\n"
RECURSIVE AppendEvents(_, _)
AppendEvents(s, events) ==
    IF events = << >> THEN s
    ELSE AppendEvents(s \o NgEvent_to_string(Head(events)) \o << LF >>,
                      Tail(events))

\* mutant: the events are written last to first
RECURSIVE AppendReversed(_, _)
AppendReversed(s, events) ==
    IF events = << >> THEN s
    ELSE AppendReversed(NgEvent_to_string(Head(events)) \o << LF >> \o s,
                        Tail(events))

NgLog_to_string_Reversed(log) == AppendReversed(<< >>, log.events)

NgLog_to_string(log) == AppendEvents(<< >>, log.events)

NgLog_local_from_reader(data) ==
    LET text == from_utf8(data)
    IN  IF ~text.ok THEN Err(text.err)
        ELSE NgLog_from_string(text.val[1])

\* mutant: overlapping pairs (data.windows(2)) instead of data.chunks(2)
RECURSIVE Decode_Windows(_, _)
Decode_Windows(decoded, data) ==
    IF Len(data) < 2 THEN decoded
    ELSE Decode_Windows(Append(decoded, Xor8(data[1], data[2])), Tail(data))

\* the loop over data.chunks(2): decoded.push(v[0] ^ v[1])
RECURSIVE Decode(_, _)
Decode(decoded, data) ==
    IF data = << >> THEN decoded
    ELSE Decode(Append(decoded, Xor8(data[1], data[2])),
                SubSeq(data, 3, Len(data)))

\* mutant: no length test, a last byte without partner is dropped
\* (data.chunks_exact(2))
NgLog_world_from_reader_NoCheck(data) ==
    LET even == SubSeq(data, 1, 2 * (Len(data) \div 2))
        text == from_utf8(Decode(<< >>, even))
    IN  IF ~text.ok THEN Err(text.err)
        ELSE NgLog_from_string(text.val[1])

NgLog_world_from_reader(data) ==
    IF Len(data) % 2 # 0 THEN Err("Non-even log length")
    ELSE LET text == from_utf8(Decode(<< >>, data))
         IN  IF ~text.ok THEN Err(text.err)
             ELSE NgLog_from_string(text.val[1])

\* ------------------------------------------------------------------------
\* Inputs
\* ------------------------------------------------------------------------
SeqsUpTo(S, n) == UNION {[1..k -> S] : k \in 0..n}

\* '\t', '\n', '\r', 'A', a lone continuation byte and a two byte lead
\* (195 128 is U+00C0)
PlainBytes == {TAB, LF, CR, 65, 128, 195}

\* byte buffers a reader can deliver
ByteSeqs == SeqsUpTo(PlainBytes, MaxLen)

\* the Strings among them (a String is valid UTF-8)
Texts == {t \in ByteSeqs : Validate(t, 0).valid}

\* keys of the world encoding used to build encoded buffers
Keys == {42, 255}

\* a plain buffer written in world form: each byte b becomes (b ^ K, K)
RECURSIVE Expand(_, _)
Expand(plain, K) ==
    IF plain = << >> THEN << >>
    ELSE << Xor8(Head(plain), K), K >> \o Expand(Tail(plain), K)

\* field values handed to NgEvent::new: "", "A", "\t", "\n"
FieldStrs == {<< >>, << 65 >>, << TAB >>, << LF >>}

\* events pushed on a directly built log
LogEvents ==
    {NgEvent_new(<< 65 >>, c, i, p) :
        c \in {None, Some(<< 66 >>)},
        i \in {<< >>, << LF >>, << 67 >>},
        p \in {<< >>, << << TAB >> >>}}

Input(kind, data, plain, key) ==
    [kind |-> kind, data |-> data, plain |-> plain, key |-> key]

Inputs ==
    {Input("bytes", B, << >>, 0) : B \in ByteSeqs}
    \cup {Input("encoded", Expand(P, K), P, K) : P \in ByteSeqs, K \in Keys}
    \cup {Input("text", T, << >>, 0) : T \in Texts}
    \cup {Input("direct", << >>, << >>, 0)}

\* ------------------------------------------------------------------------
\* State
\* ------------------------------------------------------------------------
VARIABLES
    pc,      \* "start", "pushing", "built", "rendered", "reparsed"
    input,   \* what the caller holds: a byte buffer or a String
    op,      \* the constructor that was called
    logRes,  \* its IoResult<NgLog>, << >> before the call
    evRes,   \* its IoResult<NgEvent>, << >> before the call
    out,     \* the String to_string returned, << >> before the call
    again    \* NgEvent::from_string of that String, << >> before the call

vars == << pc, input, op, logRes, evRes, out, again >>

Init ==
    /\ pc = "start"
    /\ input \in Inputs
    /\ op = "none"
    /\ logRes = << >>
    /\ evRes = << >>
    /\ out = << >>
    /\ again = << >>

\* NgLog::local_from_reader(&mut reader)
LocalFromReader ==
    /\ pc = "start"
    /\ input.kind = "bytes"
    /\ logRes' = << NgLog_local_from_reader(input.data) >>
    /\ op' = "local_from_reader"
    /\ pc' = "built"
    /\ UNCHANGED << input, evRes, out, again >>

\* NgLog::world_from_reader(&mut reader)
WorldFromReader ==
    /\ pc = "start"
    /\ input.kind \in {"bytes", "encoded"}
    /\ logRes' = << NgLog_world_from_reader(input.data) >>
    /\ op' = "world_from_reader"
    /\ pc' = "built"
    /\ UNCHANGED << input, evRes, out, again >>

\* NgLog::from_string(&s)
LogFromString ==
    /\ pc = "start"
    /\ input.kind = "text"
    /\ logRes' = << NgLog_from_string(input.data) >>
    /\ op' = "NgLog::from_string"
    /\ pc' = "built"
    /\ UNCHANGED << input, evRes, out, again >>

\* NgEvent::from_string(&s)
EventFromString ==
    /\ pc = "start"
    /\ input.kind = "text"
    /\ evRes' = << NgEvent_from_string(input.data) >>
    /\ op' = "NgEvent::from_string"
    /\ pc' = "built"
    /\ UNCHANGED << input, logRes, out, again >>

\* NgEvent::new(timestamp, class, id, params)
EventNew ==
    /\ pc = "start"
    /\ input.kind = "direct"
    /\ \E timestamp \in FieldStrs, id \in FieldStrs,
          class \in {None} \cup {Some(c) : c \in FieldStrs},
          params \in SeqsUpTo(FieldStrs, MaxParams) :
          evRes' = << Ok(NgEvent_new(timestamp, class, id, params)) >>
    /\ op' = "NgEvent::new"
    /\ pc' = "built"
    /\ UNCHANGED << input, logRes, out, again >>

\* NgLog::new(capacity)
LogNew ==
    /\ pc = "start"
    /\ input.kind = "direct"
    /\ \E capacity \in 0..MaxEvents : logRes' = << Ok(NgLog_new(capacity)) >>
    /\ op' = "NgLog::new"
    /\ pc' = "pushing"
    /\ UNCHANGED << input, evRes, out, again >>

\* log.events.push(event) on the public field of a log the caller built
PushEvent ==
    /\ pc = "pushing"
    /\ Len(logRes[1].val[1].events) < MaxEvents
    /\ \E e \in LogEvents : logRes' = << Ok(Push(logRes[1].val[1], e)) >>
    /\ UNCHANGED << pc, input, op, evRes, out, again >>

\* log.to_string()
LogToString ==
    /\ pc \in {"built", "pushing"}
    /\ logRes # << >>
    /\ logRes[1].ok
    /\ out' = << NgLog_to_string(logRes[1].val[1]) >>
    /\ pc' = "rendered"
    /\ UNCHANGED << input, op, logRes, evRes, again >>

\* event.to_string()
EventToString ==
    /\ pc = "built"
    /\ evRes # << >>
    /\ evRes[1].ok
    /\ out' = << NgEvent_to_string(evRes[1].val[1]) >>
    /\ pc' = "rendered"
    /\ UNCHANGED << input, op, logRes, evRes, again >>

\* NgEvent::from_string(&event.to_string())
EventReparse ==
    /\ pc = "rendered"
    /\ evRes # << >>
    /\ again' = << NgEvent_from_string(out[1]) >>
    /\ pc' = "reparsed"
    /\ UNCHANGED << input, op, logRes, evRes, out >>

Next ==
    \/ LocalFromReader
    \/ WorldFromReader
    \/ LogFromString
    \/ EventFromString
    \/ EventNew
    \/ LogNew
    \/ PushEvent
    \/ LogToString
    \/ EventToString
    \/ EventReparse

Spec == Init /\ [][Next]_vars

TypeOK ==
    /\ pc \in {"start", "pushing", "built", "rendered", "reparsed"}
    /\ Len(logRes) <= 1 /\ Len(evRes) <= 1 /\ Len(out) <= 1 /\ Len(again) <= 1

\* ------------------------------------------------------------------------
\* Vocabulary of the properties
\* ------------------------------------------------------------------------
\* the number of bytes c in s
Count(s, c) == Cardinality({i \in 1..Len(s) : s[i] = c})

\* the position of the k-th byte c of s; 0 for k = 0, Len(s) + 1 past the last
NthPos(s, c, k) ==
    IF k = 0 THEN 0
    ELSE IF k > Count(s, c) THEN Len(s) + 1
    ELSE CHOOSE i \in 1..Len(s) :
            s[i] = c /\ Cardinality({j \in 1..i : s[j] = c}) = k

\* the k-th tab separated field of a line (k = 1 is the first)
Field(s, k) == SubSeq(s, NthPos(s, TAB, k - 1) + 1, NthPos(s, TAB, k) - 1)

\* the number of tab separated fields of a line
NumFields(s) == Count(s, TAB) + 1

\* the fields of an event in the order of the format
FieldsOf(e) ==
    << e.timestamp >> \o e.event_class \o << e.event_id >> \o e.event_params

\* the strings of ss one after the other
RECURSIVE Concat(_)
Concat(ss) == IF ss = << >> THEN << >> ELSE Head(ss) \o Concat(Tail(ss))

\* the strings of ss with sep between every two neighbours
RECURSIVE Join(_, _)
Join(ss, sep) ==
    IF ss = << >> THEN << >>
    ELSE IF Len(ss) = 1 THEN ss[1]
    ELSE Head(ss) \o << sep >> \o Join(Tail(ss), sep)

RECURSIVE SumLen(_)
SumLen(ss) == IF ss = << >> THEN 0 ELSE Len(Head(ss)) + SumLen(Tail(ss))

\* the result of the constructor that was called
TheLog == logRes[1]
TheEvent == evRes[1]

\* ------------------------------------------------------------------------
\* Properties
\* ------------------------------------------------------------------------

\* the bytes a world buffer stands for: D[i] = B[2i] XOR B[2i+1] (0-based)
PairXor(B) == [i \in 1..(Len(B) \div 2) |-> Xor8(B[2 * i - 1], B[2 * i])]

\* C2: world_from_reader on an even-length buffer B has the outcome (the
\* same log or the same error) of local_from_reader on the len(B)/2 bytes
\* D[i] = B[2i] XOR B[2i+1]; a plain buffer expanded byte by byte into
\* (b XOR K, K) parses as world data to what the plain buffer parses to.
C2_WorldDecode ==
    (op = "world_from_reader" /\ Len(input.data) % 2 = 0) =>
        /\ TheLog = NgLog_local_from_reader(PairXor(input.data))
        /\ input.kind = "encoded" =>
               TheLog = NgLog_local_from_reader(input.plain)

\* an encoded two line log was read as world data
C2_Witness ==
    /\ op = "world_from_reader"
    /\ input.kind = "encoded"
    /\ input.key = 42
    /\ input.plain = << 65, TAB, LF, TAB >>
    /\ TheLog.ok
    /\ Len(TheLog.val[1].events) = 2

\* C3: world_from_reader on a buffer of odd length fails with the
\* "Non-even log length" error and returns no log, whatever the bytes are.
C3_OddLength ==
    (op = "world_from_reader" /\ Len(input.data) % 2 = 1) =>
        TheLog = Err("Non-even log length")

\* an odd buffer whose pairs would decode to invalid UTF-8 was rejected for
\* its length
C3_Witness ==
    /\ op = "world_from_reader"
    /\ Len(input.data) = 3
    /\ ~from_utf8(PairXor(input.data)).ok
    /\ ~TheLog.ok
    /\ TheLog.err = "Non-even log length"

\* C4: NgEvent::from_string fails with "Bad event string" on every line
\* without a tab (fewer than 2 fields, the empty line included) and succeeds
\* on every line with at least one tab.
C4_MinimumFieldCount ==
    op = "NgEvent::from_string" =>
        IF Count(input.data, TAB) = 0
        THEN TheEvent = Err("Bad event string")
        ELSE TheEvent.ok

\* a non-empty line of one field was rejected
C4_Witness ==
    /\ op = "NgEvent::from_string"
    /\ input.data = << 65, 65 >>
    /\ ~TheEvent.ok
    /\ TheEvent.err = "Bad event string"

\* C5: with f1..fn the tab separated fields of the line, n = 2 gives
\* timestamp f1, no class, id f2 and no parameters; n >= 3 gives timestamp
\* f1, class f2, id f3 and the parameters f4..fn in order; so the class is
\* present exactly when the line had 3 or more fields.
C5_EventGrammar ==
    (op = "NgEvent::from_string" /\ TheEvent.ok) =>
        LET s == input.data
            n == NumFields(s)
            e == TheEvent.val[1]
        IN  /\ n >= 2
            /\ n = 2 =>
                 /\ e.timestamp = Field(s, 1)
                 /\ e.event_class = None
                 /\ e.event_id = Field(s, 2)
                 /\ e.event_params = << >>
            /\ n >= 3 =>
                 /\ e.timestamp = Field(s, 1)
                 /\ e.event_class = Some(Field(s, 2))
                 /\ e.event_id = Field(s, 3)
                 /\ e.event_params = [k \in 1..(n - 3) |-> Field(s, k + 3)]
            /\ (e.event_class # None) <=> (n >= 3)

\* a line of four fields was parsed: class, id and one parameter
C5_Witness ==
    /\ op = "NgEvent::from_string"
    /\ input.data = << TAB, TAB, 65, TAB >>
    /\ TheEvent.ok
    /\ TheEvent.val[1].event_class = Some(<< >>)
    /\ TheEvent.val[1].event_id = << 65 >>
    /\ TheEvent.val[1].event_params = << << >> >>

\* a line has fewer than 2 tab separated fields
Malformed(l) == Count(l, TAB) = 0

\* C6: when a line of the text is malformed, NgLog::from_string returns the
\* error of that line and no log, whatever valid lines stand before or after
\* it; the outcome is a log with an event for every line or an error, never
\* a log of the valid lines only.
C6_FailFast ==
    op = "NgLog::from_string" =>
        LET ls == lines(input.data)
        IN  IF \E i \in 1..Len(ls) : Malformed(ls[i])
            THEN TheLog = Err("Bad event string")
            ELSE TheLog.ok /\ Len(TheLog.val[1].events) = Len(ls)

\* a blank line between two valid lines made the whole parse fail
C6_Witness ==
    /\ op = "NgLog::from_string"
    /\ input.data = << TAB, LF, LF, TAB >>
    /\ ~TheLog.ok
    /\ TheLog.val = << >>

\* the number of lines of a text: one for each newline, one more for a rest
\* without newline
NumLines(T) ==
    Count(T, LF) + (IF T # << >> /\ T[Len(T)] # LF THEN 1 ELSE 0)

\* one event for each line, the i-th parsed from the i-th line
OneEventPerLine(T, log) ==
    LET ls == lines(T)
    IN  /\ Len(log.events) = NumLines(T)
        /\ Len(log.events) = Len(ls)
        /\ \A i \in 1..Len(ls) : NgEvent_from_string(ls[i]) = Ok(log.events[i])

\* C7 as stated: one event for each line in line order, the empty text gives
\* no event, and every accepted T parses to the log of T with one newline
\* appended.
C7_AsStated ==
    (op = "NgLog::from_string" /\ TheLog.ok) =>
        LET T == input.data
        IN  /\ OneEventPerLine(T, TheLog.val[1])
            /\ T = << >> => TheLog.val[1].events = << >>
            /\ NgLog_from_string(T \o << LF >>) = TheLog

\* C7 (amended): for every accepted text T the log has one event for each
\* line of T, the i-th event parsed from the i-th line; a final newline
\* gives no extra event; the empty text gives a log without events; and a
\* non-empty T that does not end in '\n' or '\r' parses to the same log as
\* T with one newline appended.
C7_OrderAndCount ==
    (op = "NgLog::from_string" /\ TheLog.ok) =>
        LET T == input.data
        IN  /\ OneEventPerLine(T, TheLog.val[1])
            /\ T = << >> => TheLog.val[1].events = << >>
            /\ (T # << >> /\ T[Len(T)] \notin {LF, CR}) =>
                   NgLog_from_string(T \o << LF >>) = TheLog

\* two different lines with a final newline gave two events in line order
C7_Witness ==
    /\ op = "NgLog::from_string"
    /\ input.data = << TAB, LF, TAB, 65 >>
    /\ TheLog.ok
    /\ Len(TheLog.val[1].events) = 2
    /\ TheLog.val[1].events[1].event_id = << >>
    /\ TheLog.val[1].events[2].event_id = << 65 >>

\* T with every "\r\n" replaced by "\n"
RECURSIVE Normalize(_)
Normalize(T) ==
    IF T = << >> THEN << >>
    ELSE IF Len(T) >= 2 /\ T[1] = CR /\ T[2] = LF
         THEN << LF >> \o Normalize(SubSeq(T, 3, Len(T)))
         ELSE << T[1] >> \o Normalize(Tail(T))

\* T with a newline appended unless it is empty or ends in one
Terminated(T) ==
    IF T = << >> \/ T[Len(T)] = LF THEN T ELSE T \o << LF >>

\* the log of NgLog::from_string was written back
ParsedAndRendered ==
    op = "NgLog::from_string" /\ pc = "rendered"

\* C1 as stated: serialize(parse(T)) is T followed by one more newline.
C1_AsStated ==
    ParsedAndRendered => out[1] = input.data \o << LF >>

\* C1 (amended): for every accepted text T, to_string of the parsed log is T
\* with every line terminated by exactly one "\n": a "\r\n" of T is written
\* as "\n", one "\n" is appended when T is not empty and does not end in a
\* newline, and nothing is appended when T is empty or ends in a newline.
C1_RoundTrip ==
    ParsedAndRendered => out[1] = Terminated(Normalize(input.data))

\* a text without final newline came back with one appended
C1_Witness ==
    /\ ParsedAndRendered
    /\ input.data = << TAB, LF, 65, TAB >>
    /\ out[1] = << TAB, LF, 65, TAB, LF >>

\* an event was written by to_string
EventRendered ==
    evRes # << >> /\ pc = "rendered"

\* C8: to_string of an event, parsed or built by NgEvent::new, is its
\* timestamp, its class when present, its id and its parameters in order
\* with one tab between every two neighbours and none after the last; an
\* absent class gives neither a field nor a tab.
C8_EventToString ==
    EventRendered =>
        LET fs == FieldsOf(TheEvent.val[1])
        IN  /\ out[1] = Join(fs, TAB)
            /\ Len(out[1]) = SumLen(fs) + Len(fs) - 1

\* an event built without class and with two parameters was written
C8_Witness ==
    /\ EventRendered
    /\ op = "NgEvent::new"
    /\ TheEvent.val[1] = NgEvent_new(<< 65 >>, None, << >>, << << 65 >>, << >> >>)
    /\ out[1] = << 65, TAB, TAB, 65, TAB >>

\* a log was written by to_string
LogRendered ==
    logRes # << >> /\ pc = "rendered"

\* the lines of the events, each with its newline
RenderedLines(events) ==
    [i \in 1..Len(events) |-> NgEvent_to_string(events[i]) \o << LF >>]

\* no field of the events holds a newline
NoNewlineIn(events) ==
    \A i \in 1..Len(events) :
        \A f \in {FieldsOf(events[i])[k] : k \in 1..Len(FieldsOf(events[i]))} :
            Count(f, LF) = 0

\* C9: to_string of a log is the line of each event followed by one newline,
\* in event order; the last line is terminated too; there are as many
\* newlines as events when no field holds one; a log without events gives
\* the empty string.
C9_LogToString ==
    LogRendered =>
        LET events == TheLog.val[1].events
        IN  /\ out[1] = Concat(RenderedLines(events))
            /\ events = << >> => out[1] = << >>
            /\ events # << >> => out[1][Len(out[1])] = LF
            /\ NoNewlineIn(events) => Count(out[1], LF) = Len(events)

\* a log of two different events pushed by the caller was written
C9_Witness ==
    /\ LogRendered
    /\ op = "NgLog::new"
    /\ Len(TheLog.val[1].events) = 2
    /\ TheLog.val[1].events[1] # TheLog.val[1].events[2]
    /\ NoNewlineIn(TheLog.val[1].events)
    /\ Count(out[1], LF) = 2

\* no field of the event holds a tab or a newline
PlainFields(e) ==
    \A f \in {FieldsOf(e)[k] : k \in 1..Len(FieldsOf(e))} :
        Count(f, TAB) = 0 /\ Count(f, LF) = 0

\* the String of an event was parsed again
EventReparsed ==
    evRes # << >> /\ pc = "reparsed"

\* C10 as stated: every event without tab and newline in its fields, parsed
\* or built by NgEvent::new, is what from_string makes of its to_string.
C10_AsStated ==
    (EventReparsed /\ PlainFields(TheEvent.val[1])) =>
        again[1] = Ok(TheEvent.val[1])

\* C10 (amended): every event without tab and newline in its fields that has
\* a class or has no parameters, parsed or built by NgEvent::new, is what
\* from_string makes of its to_string.
C10_EventRoundTrip ==
    LET e == TheEvent.val[1]
    IN  (/\ EventReparsed
         /\ PlainFields(e)
         /\ e.event_class # None \/ e.event_params = << >>) =>
            again[1] = Ok(e)

\* an event built with a class and two parameters came back from its String
C10_Witness ==
    /\ EventReparsed
    /\ op = "NgEvent::new"
    /\ TheEvent.val[1] =
           NgEvent_new(<< 65 >>, Some(<< >>), << 65 >>, << << >>, << 65 >> >>)
    /\ again[1] = Ok(TheEvent.val[1])

====
